---- MODULE Spec2Model ----
(***************************************************************************)
(* The snake simulation (Level, SnakeHead, SnakePiece, Cherry) and its gym  *)
(* adapter (SnakeGameState, SnakeEnv).  Positions are pairs <<x, y>>.       *)
(***************************************************************************)
EXTENDS Integers, FiniteSets, Sequences, TLC

\* PLAY_AREA, scaled down: the grid is Width x Height.
Width == 2
Height == 2
\* Number of ticks explored after a reset().
MaxSteps == 5
\* Number of lockstep ticks explored for two environments.
PairSteps == 3
\* The values of the random generator that are told apart.
RandomRange == 2

VARIABLES
    mode,          \* "uninitialized": SnakeGameState has no game yet; "running"
    position,      \* SnakeHead.position
    direction,     \* SnakeHead.direction
    length,        \* SnakeHead.length
    pieces,        \* the live SnakePiece objects, as records [position, age]
    free_space,    \* Level.free_space
    cherry,        \* Level.cherry.position
    should_exit,   \* game.should_exit
    steps,         \* ticks run by the current game
    lastCall,      \* the last SnakeEnv call: "init", "reset" or "step"
    lastAction,    \* the action passed to the last step call
    error,         \* the exception it raised, or "none"
    reward,        \* the reward it returned
    done,          \* the done flag it returned
    twins          \* two more environments of one process and its random generator

simvars == <<position, direction, length, pieces, free_space, cherry, should_exit, steps>>
outvars == <<reward, done>>
vars == <<mode, position, direction, length, pieces, free_space, cherry,
          should_exit, steps, lastCall, lastAction, error, reward, done, twins>>

\* The cells of the grid, as Level.init enumerates them.
Grid == {<<x, y>> : x \in 0..(Width - 1), y \in 0..(Height - 1)}

\* Vector2 addition.
Add(p, d) == <<p[1] + d[1], p[2] + d[2]>>

\* The action values a caller may pass; 4 and -1 stand for every value outside 0..3.
Actions == {-1, 0, 1, 2, 3, 4}

\* SnakeEnv.step: the direction an action requests; <<0, 0>> is the initial Vector2(0, 0).
ActionDirection(action) ==
    IF action = 0 THEN <<1, 0>>
    ELSE IF action = 1 THEN <<-1, 0>>
    ELSE IF action = 2 THEN <<0, 1>>
    ELSE IF action = 3 THEN <<0, -1>>
    ELSE <<0, 0>>

\* Mutant of ActionRaises: the else branch is missing, Vector2(0, 0) is stepped.
ActionNeverRaises(action) == FALSE

\* SnakeEnv.step: the else branch that raises ValueError.
ActionRaises(action) == action \notin {0, 1, 2, 3}

\* Level.unoccupy_space
unoccupy_space(fs, p) == IF p \notin fs THEN fs \cup {p} ELSE fs

\* Level.occupy_space
occupy_space(fs, p) == IF p \in fs THEN fs \ {p} ELSE fs

\* SnakeHead.update, the wrap at its end: only an overflow is reset.
Wrap(p) == <<IF p[1] >= Width THEN 0 ELSE p[1], IF p[2] >= Height THEN 0 ELSE p[2]>>

\* Mutant of Expired: the comparison is strict.
ExpiredLate(piece, len) == len - piece.age < 0

\* SnakePiece.update: the piece is destroyed when head.length - age <= 0.
Expired(piece, len) == len - piece.age <= 0

\* SnakePiece.update's age increment.
Aged(piece) == [piece EXCEPT !.age = @ + 1]

\* Mutant of Reward: should_exit is tested before the length.
RewardExitFirst(last_lenght, len, exit) ==
    IF exit THEN -1
    ELSE IF len > last_lenght THEN 1
    ELSE 0

\* SnakeGameState.step: the reward of a tick.
Reward(last_lenght, len, exit) ==
    IF len > last_lenght THEN 1
    ELSE IF exit THEN -1
    ELSE 0

\* SnakeGameState.loop as SnakeEnv constructs the state.
loop == FALSE

\* numpy's indexing of an axis of size n: a negative index counts from the end.
IndexOk(i, n) == i >= -n /\ i < n
Index(i, n) == IF i < 0 THEN i + n ELSE i
CellOk(p) == IndexOk(p[1], Width) /\ IndexOk(p[2], Height)
Cell(p) == <<Index(p[1], Width), Index(p[2], Height)>>

\* encode's bounds guard on the head's cell and on its projected cell.
InBounds(p) == p[1] < Width /\ p[1] >= 0 /\ p[2] < Height /\ p[2] >= 0

\* encode: the head's projected position under loop policy lp (SnakeGameState.loop).
NextCellUnder(lp, pos, dir) ==
    LET n == Add(pos, dir)
    IN IF lp THEN <<n[1] % Width, n[2] % Height>> ELSE n

\* encode: the cells of channel 2 that are set under loop policy lp.
Channel2Under(lp, pos, dir) ==
    {c \in Grid : InBounds(NextCellUnder(lp, pos, dir)) /\ c = NextCellUnder(lp, pos, dir)}

\* encode: the cell of the head's next position.
NextCell(pos, dir) == NextCellUnder(loop, pos, dir)

\* encode raises IndexError when a piece or the cherry indexes outside the tensor.
EncodeRaises(ps, ch) == (\E p \in ps : ~CellOk(p.position)) \/ ~CellOk(ch)

\* encode, channel 0: each cell holds age + 1 of the piece written last; the pieces
\* are visited in the arbitrary order of a set of objects.
RECURSIVE Channel0(_, _)
Channel0(cells, ps) ==
    IF cells = {} THEN {<<>>}
    ELSE LET c == CHOOSE x \in cells : TRUE
             here == {p.age + 1 : p \in {q \in ps : Cell(q.position) = c}}
             vals == IF here = {} THEN {0} ELSE here
         IN {f @@ (c :> v) : f \in Channel0(cells \ {c}, ps), v \in vals}

\* encode: the tensors it may return, one per visiting order that matters.
Encode(pos, dir, ps, ch) ==
    {[c0 |-> f,
      c1 |-> [c \in Grid |-> IF InBounds(pos) /\ c = pos THEN 1 ELSE 0],
      c2 |-> [c \in Grid |-> IF InBounds(NextCell(pos, dir)) /\ c = NextCell(pos, dir)
                             THEN 1 ELSE 0],
      c3 |-> [c \in Grid |-> IF c = Cell(ch) THEN 1 ELSE 0]] : f \in Channel0(Grid, ps)}

\* SnakeEnv.reset and SnakeEnv.step return encode() of the state they leave: the
\* tensors the last call may have returned, when it returned.
Returned == mode = "running" /\ error = "none"
Observations == Encode(position, direction, pieces, cherry)

\* The simulation as one record: the head's fields, the live pieces, the level's
\* free_space and cherry, and the game's should_exit and tick count.
Sim == [position |-> position, direction |-> direction, length |-> length,
        pieces |-> pieces, free_space |-> free_space, cherry |-> cherry,
        should_exit |-> should_exit, steps |-> steps]

\* The variables take the fields of the simulation record s.
SetSim(s) ==
    /\ position' = s.position
    /\ direction' = s.direction
    /\ length' = s.length
    /\ pieces' = s.pieces
    /\ free_space' = s.free_space
    /\ cherry' = s.cherry
    /\ should_exit' = s.should_exit
    /\ steps' = s.steps

\* SnakeEnv() constructed: SnakeGameState.__init__ creates no game.
NoGame ==
    [position |-> <<0, 0>>, direction |-> <<0, 0>>, length |-> 0, pieces |-> {},
     free_space |-> {}, cherry |-> <<0, 0>>, should_exit |-> FALSE, steps |-> 0]

\* Mutant of LevelInit: SnakeHead.init with its two vectors exchanged.
LevelInitSwapped(c) ==
    [position |-> <<1, 0>>, direction |-> <<0, 0>>, length |-> 3, pieces |-> {},
     free_space |-> Grid, cherry |-> c, should_exit |-> FALSE, steps |-> 0]

\* Level.init in a new game: every cell is free, the head is created by
\* SnakeHead.init, then the cherry is drawn at c.
LevelInit(c) ==
    [position |-> <<0, 0>>, direction |-> <<1, 0>>, length |-> 3, pieces |-> {},
     free_space |-> Grid, cherry |-> c, should_exit |-> FALSE, steps |-> 0]

\* Level.cherry_position_lottery at Level.init: the cells random.choice may return.
InitialLottery == Grid

\* Mutant of Eaten: the position is compared after the wrap.
EatenAfterWrap(new_pos, ch) == Wrap(new_pos) = ch

\* SnakeHead.update: the cherry is eaten when the moved, not yet wrapped, position is its cell.
Eaten(new_pos, ch) == new_pos = ch

\* Mutant of Grown: eating the cherry shortens the snake.
GrownDown(len) == len - 1

\* SnakeHead.on_cherry_eaten: the length after the cherry was eaten.
Grown(len) == len + 1

\* Level.cherry_position_lottery: random.choice raises IndexError on an empty list.
LotteryRaises(fs) == fs = {}

\* SnakeHead.on_collision is invoked when the moved position is not free: it does nothing.
Collides(fs, new_pos) == new_pos \notin fs

\* Mutant of FreeAtLottery: the piece is spawned on the old cell before the cherry test.
FreeAfterSpawn(s, dir) ==
    occupy_space(occupy_space(unoccupy_space(s.free_space, s.position),
                              Add(s.position, dir)), s.position)

\* SnakeHead.update: free_space when the cherry test is made (the old cell released,
\* the moved position taken).
FreeAtLottery(s, dir) ==
    occupy_space(unoccupy_space(s.free_space, s.position), Add(s.position, dir))

\* The tick raises inside the lottery: the cherry is eaten and no cell is free.
LotteryFails(s, dir) ==
    Eaten(Add(s.position, dir), s.cherry) /\ LotteryRaises(FreeAtLottery(s, dir))

\* The cells the cherry may be on after the tick: drawn from free_space when eaten.
Lottery(s, dir) ==
    IF LotteryFails(s, dir) THEN {s.cherry}
    ELSE IF Eaten(Add(s.position, dir), s.cherry) THEN FreeAtLottery(s, dir)
    ELSE {s.cherry}

\* Mutant of Spawned: the age starts at 1.
SpawnedAged(old_pos) == [position |-> old_pos, age |-> 1]

\* SnakePiece.init: the piece the head leaves on the cell it moves from.
Spawned(old_pos) == [position |-> old_pos, age |-> 0]

\* SnakeHead.update: the cell is released, the head moves, the moved position is
\* taken, the cherry is eaten (the lottery returns pick), the old cell is taken by
\* the spawned piece, and the position wraps.  When the lottery raises, the update
\* ends there.
HeadUpdate(s, dir, pick) ==
    LET old_pos == s.position
        new_pos == Add(s.position, dir)
        fs2 == FreeAtLottery(s, dir)
        eaten == Eaten(new_pos, s.cherry)
    IN IF LotteryFails(s, dir)
       THEN [s EXCEPT !.direction = dir, !.position = new_pos, !.free_space = fs2]
       ELSE [s EXCEPT !.direction = dir,
                      !.position = Wrap(new_pos),
                      !.length = IF eaten THEN Grown(@) ELSE @,
                      !.cherry = IF eaten THEN pick ELSE @,
                      !.free_space = occupy_space(fs2, old_pos)]

\* SnakePiece.update of every piece of s: each ages, and the ones the head's length
\* no longer covers release their cell and are destroyed.
PiecesUpdate(s) ==
    LET aged == {Aged(p) : p \in s.pieces}
        gone == {p \in aged : Expired(p, s.length)}
    IN [s EXCEPT !.pieces = aged \ gone,
                 !.free_space = @ \cup {p.position : p \in gone}]

\* One tick of the game: the head is updated, then every piece that existed before
\* the tick; the piece spawned in the tick is first updated in the next one.
\* quit: the game loop was asked to exit during the tick.
RunStep(s, dir, quit, pick) ==
    LET h == HeadUpdate(s, dir, pick)
        t == [h EXCEPT !.steps = @ + 1, !.should_exit = (@ \/ quit)]
        u == PiecesUpdate(t)
    IN IF LotteryFails(s, dir) THEN t
       ELSE [u EXCEPT !.pieces = @ \cup {Spawned(s.position)}]

\* list(self.free_space): the cells in the order the set yields them, which is the
\* same for two sets with the same history.
RECURSIVE ListOf(_)
ListOf(fs) ==
    IF fs = {} THEN <<>>
    ELSE LET m == CHOOSE c \in fs : \A d \in fs :
                      c[1] < d[1] \/ (c[1] = d[1] /\ c[2] <= d[2])
         IN <<m>> \o ListOf(fs \ {m})

\* Level.cherry_position_lottery: random.choice on the module's own generator, of
\* which r is the next value.
Choice(fs, r) == ListOf(fs)[(r % Cardinality(fs)) + 1]

\* The generator's values after it is seeded with the game's random_seed, by the
\* number of values already drawn.
Streams == [0..(2 * PairSteps) -> 0..(RandomRange - 1)]

\* No second and third environment exist.
NoTwins == [a |-> NoGame, b |-> NoGame, stream |-> [k \in 0..(2 * PairSteps) |-> 0],
            drawn |-> 0, running |-> FALSE]

\* SnakeGameState.reset: the game is constructed with random_seed, which seeds the
\* generator, and Level.init draws the cherry.
ResetOne(t) == [sim |-> LevelInit(Choice(InitialLottery, t.stream[0])), drawn |-> 1]

\* SnakeGameState.step of one environment: the lottery, when the cherry is eaten,
\* takes the next value of the generator both environments share.
StepOne(s, dir, t, drawn) ==
    LET draws == Eaten(Add(s.position, dir), s.cherry) /\ ~LotteryFails(s, dir)
        pick == IF draws THEN Choice(FreeAtLottery(s, dir), t.stream[drawn]) ELSE s.cherry
    IN [sim |-> RunStep(s, dir, FALSE, pick), drawn |-> IF draws THEN drawn + 1 ELSE drawn]

Init ==
    /\ mode = "uninitialized"
    /\ position = NoGame.position
    /\ direction = NoGame.direction
    /\ length = NoGame.length
    /\ pieces = NoGame.pieces
    /\ free_space = NoGame.free_space
    /\ cherry = NoGame.cherry
    /\ should_exit = NoGame.should_exit
    /\ steps = NoGame.steps
    /\ lastCall = "init"
    /\ lastAction = 0
    /\ error = "none"
    /\ reward = 0
    /\ done = FALSE
    /\ twins = NoTwins

\* SnakeEnv.reset: a new game, then encode.
Reset ==
    /\ \E c \in InitialLottery : SetSim(LevelInit(c))
    /\ mode' = "running"
    /\ lastCall' = "reset"
    /\ error' = "none"
    /\ UNCHANGED <<lastAction, reward, done, twins>>

\* SnakeEnv.step in the running state.
Step ==
    /\ mode = "running"
    /\ steps < MaxSteps
    /\ \E action \in Actions :
        /\ lastCall' = "step"
        /\ lastAction' = action
        /\ mode' = mode
        /\ twins' = twins
        /\ IF ActionRaises(action)
           THEN /\ error' = "ValueError"
                /\ UNCHANGED simvars
                /\ UNCHANGED outvars
           ELSE /\ \E quit \in BOOLEAN, pick \in Lottery(Sim, ActionDirection(action)) :
                    SetSim(RunStep(Sim, ActionDirection(action), quit, pick))
                /\ IF LotteryFails(Sim, ActionDirection(action)) \/ EncodeRaises(pieces', cherry')
                   THEN /\ error' = "IndexError"
                        /\ UNCHANGED outvars
                   ELSE /\ error' = "none"
                        /\ reward' = Reward(length, length', should_exit')
                        /\ done' = (reward' < 0)

\* SnakeEnv.step before any reset: SnakeGameState has no game attribute.
StepUninitialized ==
    /\ mode = "uninitialized"
    /\ \E action \in Actions :
        /\ error' = IF ActionRaises(action) THEN "ValueError" ELSE "AttributeError"
        /\ lastCall' = "step"
        /\ lastAction' = action
        /\ UNCHANGED <<mode, simvars, outvars, twins>>

Next == Reset \/ Step \/ StepUninitialized

Spec == Init /\ [][Next]_vars

\* Two environments of one process, seeded with the same value: both are reset, then
\* both are fed the same actions, one step each in turn.
mainvars == <<mode, position, direction, length, pieces, free_space, cherry,
              should_exit, steps, lastCall, lastAction, error, reward, done>>

PairInit ==
    /\ mode = "uninitialized"
    /\ position = NoGame.position
    /\ direction = NoGame.direction
    /\ length = NoGame.length
    /\ pieces = NoGame.pieces
    /\ free_space = NoGame.free_space
    /\ cherry = NoGame.cherry
    /\ should_exit = NoGame.should_exit
    /\ steps = NoGame.steps
    /\ lastCall = "init"
    /\ lastAction = 0
    /\ error = "none"
    /\ reward = 0
    /\ done = FALSE
    /\ \E st \in Streams : twins = [NoTwins EXCEPT !.stream = st]

\* SnakeEnv.reset of the first environment, then of the second.
ResetBoth ==
    /\ ~twins.running
    /\ LET ra == ResetOne(twins)
           rb == ResetOne(twins)
       IN twins' = [twins EXCEPT !.a = ra.sim, !.b = rb.sim, !.drawn = rb.drawn,
                                 !.running = TRUE]
    /\ UNCHANGED mainvars

\* SnakeEnv.step(action) of the first environment, then of the second.
StepBoth ==
    /\ twins.running
    /\ twins.a.steps < PairSteps
    /\ \E action \in {0, 1, 2, 3} :
        LET dir == ActionDirection(action)
            sa == StepOne(twins.a, dir, twins, twins.drawn)
            sb == StepOne(twins.b, dir, twins, sa.drawn)
        IN twins' = [twins EXCEPT !.a = sa.sim, !.b = sb.sim, !.drawn = sb.drawn]
    /\ UNCHANGED mainvars

PairNext == ResetBoth \/ StepBoth

PairSpec == PairInit /\ [][PairNext]_vars

(***************************************************************************)
(* Properties.                                                             *)
(***************************************************************************)

\* A step call that ran a tick of the running game.
Ticked == mode = "running" /\ lastCall' = "step" /\ steps' = steps + 1

\* The position the head moves to in this step, before the wrap.
MovedTo == Add(position, direction')

\* The cells the head or a live piece reports as its position.
Held == {position} \cup {p.position : p \in pieces}

\* C1: in every state after reset(), a grid cell is in free_space iff neither the
\* head nor a live piece has it as its position.
OccupancyInvariant ==
    mode = "running" => \A c \in Grid : (c \in free_space <=> c \notin Held)

\* C2: a step that moves the head into a cell that is not free, and not onto the
\* cherry, makes the game signal exit and returns reward -1 and done.
CollisionEndsEpisode ==
    [][(Ticked /\ error' = "none"
        /\ Collides(unoccupy_space(free_space, position), MovedTo)
        /\ MovedTo # cherry)
       => (should_exit' /\ reward' = -1 /\ done')]_vars

\* C3: the reward a step returns is +1 if the length grew, else -1 if should_exit
\* is set, else 0; it is in {1, 0, -1} and done is exactly reward < 0.
RewardMapping ==
    [][(Ticked /\ error' = "none")
       => /\ reward' = (IF length' > length THEN 1 ELSE IF should_exit' THEN -1 ELSE 0)
          /\ reward' \in {1, 0, -1}
          /\ done' = (reward' < 0)]_vars

\* C3 witness: a step grew the snake while should_exit was set, and returned +1.
RewardMappingWitness ==
    lastCall = "step" /\ error = "none" /\ should_exit /\ length > 3 /\ reward = 1 /\ ~done

\* C4: the length is 3 after reset() and never decreases in a step; a tick adds
\* exactly 1 when the moved, not yet wrapped, position is the cherry's cell, and
\* leaves the length unchanged otherwise.
GrowthOnCherry ==
    [][/\ lastCall' = "reset" => length' = 3
       /\ (mode = "running" /\ lastCall' = "step") => length' >= length
       /\ Ticked => length' = (IF MovedTo = cherry THEN length + 1 ELSE length)]_vars

\* C4 witness: the snake has eaten two cherries.
GrowthOnCherryWitness == mode = "running" /\ lastCall = "step" /\ length = 5

\* C5: two environments seeded with the same value, reset, and fed the same actions
\* return the same observation at every step, so the same cherry placements.
Determinism ==
    twins.running =>
        /\ twins.a.cherry = twins.b.cherry
        /\ Encode(twins.a.position, twins.a.direction, twins.a.pieces, twins.a.cherry)
           = Encode(twins.b.position, twins.b.direction, twins.b.pieces, twins.b.cherry)

\* C6: the observation reset() returns has exactly one cell set in channel 3, and
\* that cell is not the head's initial position (0, 0).
InitialCherryPlacement ==
    lastCall = "reset" =>
        \A obs \in Observations :
            /\ Cardinality({c \in Grid : obs.c3[c] = 1}) = 1
            /\ obs.c3[<<0, 0>>] # 1

\* C7: a step with an action outside {0, 1, 2, 3} raises the invalid-argument error
\* and changes nothing in the simulation; the actions 0, 1, 2, 3 request (1, 0),
\* (-1, 0), (0, 1), (0, -1) and run exactly one tick.
InvalidAction ==
    [][(mode = "running" /\ lastCall' = "step") =>
        IF lastAction' \notin {0, 1, 2, 3}
        THEN error' = "ValueError" /\ UNCHANGED simvars
        ELSE /\ error' # "ValueError"
             /\ steps' = steps + 1
             /\ direction' = (CASE lastAction' = 0 -> <<1, 0>>
                                [] lastAction' = 1 -> <<-1, 0>>
                                [] lastAction' = 2 -> <<0, 1>>
                                [] lastAction' = 3 -> <<0, -1>>)]_vars

\* C7 witness: an invalid action was refused by a game that had already moved.
InvalidActionWitness ==
    mode = "running" /\ lastCall = "step" /\ lastAction = 4 /\ error = "ValueError"
    /\ steps > 0 /\ pieces # {}

\* C8: the adapter is uninitialized or running; reset() leaves it running with a
\* fresh simulation (head at (0, 0), length 3, no pieces, one cherry); a step before
\* any reset() raises and neither advances nor creates a simulation.
AdapterStateMachine ==
    [][/\ mode' \in {"uninitialized", "running"}
       /\ lastCall' = "reset" =>
            /\ mode' = "running"
            /\ position' = <<0, 0>> /\ length' = 3 /\ pieces' = {} /\ steps' = 0
            /\ cherry' \in Grid
       /\ (mode = "uninitialized" /\ lastCall' = "step") =>
            /\ error' # "none"
            /\ mode' = "uninitialized"
            /\ UNCHANGED simvars]_vars

\* C8 witness: a valid action was stepped before any reset() and raised.
AdapterStateMachineWitness ==
    mode = "uninitialized" /\ lastCall = "step" /\ lastAction = 0 /\ error = "AttributeError"

\* C9: every observation returned has channel 0 in [0, Width * Height] and
\* channels 1, 2, 3 in {0, 1}.
ObservationRange ==
    Returned =>
        \A obs \in Observations : \A c \in Grid :
            /\ obs.c0[c] \in 0..(Width * Height)
            /\ obs.c1[c] \in {0, 1}
            /\ obs.c2[c] \in {0, 1}
            /\ obs.c3[c] \in {0, 1}

\* C10: after reset() and after every step the head's position is on the grid.
HeadOnGrid == mode = "running" => InBounds(position)

\* C11: in every state after reset() and after every step, the head's position
\* differs from the cherry's: a cherry the head is on has been eaten and replaced.
CherryConsumedOnContact == mode = "running" => position # cherry

\* C12: when the cherry is eaten, the new cherry is drawn from free_space as it is
\* at that point, never on the cell the head moved from, and at the end of the step
\* it is on a cell held by neither the head nor a live piece.
CherryRelocation ==
    [][(Ticked /\ Eaten(MovedTo, cherry))
       => /\ cherry' \in FreeAtLottery(Sim, direction')
          /\ cherry' # position
          /\ cherry' # position'
          /\ \A p \in pieces' : p.position # cherry']_vars

\* C13 as stated: free_space is not empty when a cherry is drawn, and the snake
\* never fills the grid (the head and the live pieces never cover every cell).
FreeSetNeverEmptyGridNeverFull ==
    [][/\ (Ticked /\ Eaten(MovedTo, cherry)) => FreeAtLottery(Sim, direction') # {}
       /\ mode' = "running" => ~(Grid \subseteq ({position'} \cup {p.position : p \in pieces'}))]_vars

\* C13, amended: whenever a cherry is drawn, at Level.init and when the cherry is
\* eaten, free_space is not empty and the cherry is one of its cells, so the lottery
\* never raises.
FreeSetAtSpawn ==
    [][/\ lastCall' = "reset" => (InitialLottery # {} /\ cherry' \in InitialLottery)
       /\ (Ticked /\ Eaten(MovedTo, cherry))
            => /\ FreeAtLottery(Sim, direction') # {}
               /\ cherry' \in FreeAtLottery(Sim, direction')
               /\ length' = length + 1]_vars

\* C13 witness: the cherry was eaten when the cell the head had just released was
\* the only free one; the new cherry is on it, under the spawned piece.
FreeSetAtSpawnWitness ==
    /\ mode = "running" /\ lastCall = "step" /\ error = "none" /\ reward = 1
    /\ free_space = {}
    /\ [position |-> cherry, age |-> 0] \in pieces

\* The pieces that a step destroys.
Destroyed == {p \in pieces : Aged(p) \notin pieces'}

\* C14: every step creates a piece of age 0 on the cell the head moves from; every
\* older piece ages by exactly 1, and is destroyed, its cell released, at the first
\* step at which its age reaches the head's length of that moment.  A piece is
\* therefore as many steps old as its age, and alive while its age is below the length.
PieceLifetime ==
    [][Ticked =>
        /\ pieces' = {Aged(p) : p \in pieces \ Destroyed} \cup {[position |-> position, age |-> 0]}
        /\ \A p \in pieces :
            /\ p \in Destroyed <=> p.age + 1 >= length'
            /\ p \in Destroyed => p.position \in free_space'
            /\ p.age < length
            /\ p.age < steps]_vars

\* C14 witness: a piece created while the length was 3 is alive with age 3, because
\* the snake grew in the step at which it would have expired.
PieceLifetimeWitness ==
    /\ mode = "running" /\ lastCall = "step" /\ steps = 4 /\ length = 4 /\ reward = 1
    /\ error = "none"
    /\ \E p \in pieces : p.age = 3

\* C15: after every step the number of live pieces is the head's length once at
\* least that many steps were taken, and the number of steps taken before that.
TailLength ==
    mode = "running" =>
        Cardinality(pieces) = (IF steps >= length THEN length ELSE steps)

\* C15 witness: the tail is as long as the snake right after a step in which it grew.
TailLengthWitness ==
    /\ mode = "running" /\ lastCall = "step" /\ error = "none" /\ reward = 1
    /\ steps >= length /\ length = 4 /\ Cardinality(pieces) = 4

\* C16: in every state the tensor encode returns is determined by the positions,
\* the ages and the direction alone: channel 0 does not depend on the order in
\* which the live pieces are visited.
EncoderDetermined == Returned => Cardinality(Observations) = 1

\* C17: under either loop policy channel 2 has at most one cell set, exactly one
\* when the policy is enabled, and when the next action requests the head's
\* current direction the head's position after that step is the marked cell.
NextPositionPredicted ==
    [][\A lp \in BOOLEAN :
        /\ mode' = "running" =>
            /\ Cardinality(Channel2Under(lp, position', direction')) <= 1
            /\ lp => Cardinality(Channel2Under(lp, position', direction')) = 1
        /\ (Ticked /\ direction' = direction) =>
            \A c \in Channel2Under(lp, position, direction) : position' = c]_vars

\* C18: no step both collides and grows the snake, and the cherry's cell is in
\* the free set in every state.
CollisionExcludesGrowth ==
    [][/\ Ticked => ~(/\ Collides(unoccupy_space(free_space, position), MovedTo)
                      /\ Eaten(MovedTo, cherry))
       /\ mode' = "running" => cherry' \in free_space']_vars

\* C19: pieces are destroyed in the order of their creation: a step destroys at
\* most one piece, the destroyed piece is older than every other live piece, no
\* two live pieces have the same age, and a step in which the snake grows
\* destroys none.
ExpiryOrder ==
    [][Ticked =>
        /\ Cardinality(Destroyed) <= 1
        /\ \A p \in Destroyed : \A q \in pieces \ {p} : q.age < p.age
        /\ \A p, q \in pieces' : p.age = q.age => p = q
        /\ length' > length => Destroyed = {}]_vars

ExpiryOrderWitness ==
    /\ mode = "running" /\ lastCall = "step" /\ error = "none" /\ reward = 0
    /\ steps = 5 /\ length = 4
    /\ {p.age : p \in pieces} = {0, 1, 2, 3}

====
